---- MODULE Spec2Model ----
(***************************************************************************)
(* LdapService (src/lib/ldap.service.ts): admin session state, the shared  *)
(* user connection, the cache-aside layer and the public operations        *)
(* authenticate, searchByUsername, searchByDN, modify, add and             *)
(* synchronization, as asynchronous tasks interleaved at their awaits and  *)
(* callbacks.                                                              *)
(***************************************************************************)
EXTENDS Integers, Sequences, FiniteSets, TLC

\* ------------------------------------------------------------------ bounds
\* Concurrent public operations (task slots).
Procs == {1, 2}
\* Pending binds started by the rebind-on-reconnect listener.
MaxListenerBinds == 1
\* 'connect' listeners the model lets the admin connection carry.
MaxListeners == 2
\* Public operations started in one behaviour with concurrent callers.
MaxStarts == 2

Usernames == {"alice"}
\* Accounts the directory holds (what a bulk search can return).
DirectoryUsers == {"alice", "bob"}
Passwords == {"pw1", "pw2"}
\* Revisions of a directory entry (the directory may change between reads).
Revs == {1, 2}

\* ------------------------------------------------------------ data model
LDAP_PASSWORD_NULL == "nCN34c23~_@093429!*%3w32-23787"

\* No entry (undefined) and no cache record (a get that finds nothing).
NoEntry == [dn |-> "", sAMAccountName |-> "", rev |-> 0, groups |-> "unset"]
NoRecord == [user |-> NoEntry, password |-> ""]

\* A modification of a change list, and the change lists modify is called
\* with: a modification of a text attribute and one of a photo.
Change(type, vals) == [type |-> type, vals |-> vals]
ChangeLists == {<<Change("mail", "a@b"), Change("thumbnailPhoto", "JPEG")>>}

\* data.forEach(...) of modify (lines 895-900, 963-968): the payload of a
\* photo modification is replaced in the caller's array.
skipPhotos(data) ==
  [i \in DOMAIN data |->
     IF data[i].type \in {"thumbnailPhoto", "jpegPhoto"}
       THEN [data[i] EXCEPT !.vals = "...skipped..."]
       ELSE data[i]]

\* The identity of a connection nobody is bound on.
Anonymous == [dn |-> "", password |-> ""]

\* The DN the directory holds for an account (lower-cased on ingestion).
DnOf(u) == "cn=" \o u

\* A normalized search entry; groups is "unset" until findGroups sets it.
Entry(u, rev) == [dn |-> DnOf(u), sAMAccountName |-> u, rev |-> rev, groups |-> "unset"]

Entries == {Entry(u, r) : u \in Usernames, r \in Revs}

\* bcrypt.hashSync(password, salt) and bcrypt.compareSync(password, hash).
hashSync(password) == "bcrypt:" \o password
compareSync(password, hash) == hash = hashSync(password)

\* The DN that add builds (line 1254) and the lower-cased DN its entry has.
newObjectBase == "ou=new"
AddDn(cn) == "CN=" \o cn \o "," \o newObjectBase

\* Cache keys. Keys are the keys that are ever written, the prefixed ones;
\* findUser reads and modify deletes the bare username and dn, which are
\* never written.
userKey(username) == "user:" \o username
dnKey(dn) == "dn:" \o dn

Keys ==
  {userKey(u) : u \in Usernames} \cup {dnKey(DnOf(u)) : u \in Usernames}
    \cup {dnKey(AddDn(u)) : u \in Usernames}

VARIABLES
  options,          \* LdapModuleOptions: which options are configured
  adminBound,       \* this.adminBound
  onceArmed,        \* the once('installReconnectListener') handler is registered
  connectListeners, \* number of 'connect' listeners on adminClient
  listenerBinds,    \* binds in flight that a 'connect' listener started
  adminEvent,       \* (history) code of the last 'error'/'connectTimeout' since a bind succeeded
  userCache,        \* content of this.userCache, by key
  userQueue,        \* requests sent on userClient, not yet processed by the server
  userResp,         \* per task: the server's answer to its userClient request
  srvUserIdentity,  \* identity the server holds for the user connection
  pc,               \* per task: where it is suspended
  op,               \* per task: the public operation and its arguments
  bg,               \* per task: running the background re-authentication
  cached,           \* per task: the record authenticate read from the cache
  foundUser,        \* per task: the entry findUser resolved
  result,           \* per task: what the caller received
  sync,             \* per task: synchronization's entries and their group searches
  live,             \* per task (history): steps of the live authentication that succeeded
  deleted,          \* per task (history): keys it asked the cache to delete
  sent,             \* per task (history): the change list of the modify request it issued
  active,           \* the tasks that callers use
  budget,           \* public operations that may still start (Unlimited: any number)
  input,            \* the argument of the pure function examined
  output,           \* what the function returned, <<>> before it returns
  call              \* the pure function examined and whether it has returned

adminVars == <<adminBound, onceArmed, connectListeners, listenerBinds, adminEvent>>
userConnVars == <<userQueue, userResp, srvUserIdentity>>
taskVars == <<pc, op, bg, cached, foundUser, result, sync, live, deleted, sent>>
callVars == <<active, budget>>
filterVars == <<input, output, call>>
vars == <<options, adminVars, userCache, userConnVars, taskVars, callVars, filterVars>>

\* The budget of a caller that starts any number of operations.
Unlimited == MaxStarts + 1

\* A settled promise runs its caller's continuation as a microtask, before
\* any other callback or call: nothing else happens while a task is done.
Turn == \A q \in Procs : pc[q] # "done"

\* What the caller holds: nothing yet, a user, true, a list, or an error.
Pending == [status |-> "pending", user |-> NoEntry, list |-> <<>>, error |-> ""]
Ok(user) == [Pending EXCEPT !.status = "ok", !.user = user]
OkTrue == [Pending EXCEPT !.status = "ok"]
OkList(items) == [Pending EXCEPT !.status = "ok", !.list = items]
Err(e) == [Pending EXCEPT !.status = "err", !.error = e]

NoOp == [kind |-> "none", user |-> "alice", password |-> "", cache |-> FALSE, named |-> FALSE,
         data |-> <<>>]

\* options.reconnect is undefined, false or true.
ReconnectValues == {"undefined", "false", "true"}
Truthy(v) == v = "true"

\* Mutant: userCache is set whatever the configuration.
CacheOn_always == TRUE

\* userCache is set only when a cache backend is configured (lines 84-131).
CacheOn == options.cache

\* The configurations: the full one, and every one that differs from it in
\* one option or has no admin identity.
FullOptions == [bindDN |-> TRUE, reconnect |-> "true", cache |-> TRUE,
                groupSearch |-> TRUE, newObject |-> TRUE]
AllOptions == [bindDN : BOOLEAN, reconnect : ReconnectValues, cache : BOOLEAN,
               groupSearch : BOOLEAN, newObject : BOOLEAN]
Differences(o) ==
  Cardinality({f \in DOMAIN FullOptions : o[f] # FullOptions[f]})
Configurations == {o \in AllOptions : ~o.bindDN \/ Differences(o) <= 1}

Init ==
  /\ options \in Configurations
  /\ adminBound = FALSE
  /\ onceArmed = Truthy(options.reconnect)
  /\ connectListeners = 0
  /\ listenerBinds = 0
  /\ adminEvent = "none"
  /\ userCache = [k \in Keys |-> NoRecord]
  /\ userQueue = <<>>
  /\ userResp = [p \in Procs |-> "none"]
  /\ srvUserIdentity = Anonymous
  /\ pc = [p \in Procs |-> "idle"]
  /\ op = [p \in Procs |-> NoOp]
  /\ bg = [p \in Procs |-> FALSE]
  /\ cached = [p \in Procs |-> NoRecord]
  /\ foundUser = [p \in Procs |-> NoEntry]
  /\ result = [p \in Procs |-> Pending]
  /\ sync = [p \in Procs |-> <<>>]
  /\ live = [p \in Procs |-> {}]
  /\ deleted = [p \in Procs |-> {}]
  /\ sent = [p \in Procs |-> <<>>]
  /\ active = {1}
  /\ budget = Unlimited
  /\ input = <<>>
  /\ output = <<>>
  /\ call = [fn |-> "none", returned |-> FALSE]

\* --------------------------------------------------------- task effects
\* What one step of task p does to its own state and to the shared cache
\* and user-connection queue; Apply installs it.
Same(p) ==
  [pc |-> pc[p], result |-> result[p], found |-> foundUser[p], bg |-> bg[p],
   queue |-> userQueue, cache |-> userCache, live |-> live[p], deleted |-> deleted[p],
   sent |-> sent[p]]

Apply(p, e) ==
  /\ pc' = [pc EXCEPT ![p] = e.pc]
  /\ result' = [result EXCEPT ![p] = e.result]
  /\ foundUser' = [foundUser EXCEPT ![p] = e.found]
  /\ bg' = [bg EXCEPT ![p] = e.bg]
  /\ live' = [live EXCEPT ![p] = e.live]
  /\ deleted' = [deleted EXCEPT ![p] = e.deleted]
  /\ sent' = [sent EXCEPT ![p] = e.sent]
  /\ userQueue' = e.queue
  /\ userCache' = e.cache

\* A rejection reaching the caller; in the background re-authentication it is
\* caught and logged (lines 1162-1169) and the result already returned stays.
Did(e, step) == [e EXCEPT !.live = e.live \cup {step}]

\* Mutant: a background failure reaches the caller too.
Fail_toCaller(p, e, error) == [e EXCEPT !.pc = "done", !.result = Err(error)]

Fail(p, e, error) ==
  [e EXCEPT !.pc = "done",
            !.result = IF e.bg THEN e.result ELSE Err(error)]

\* userClient.bind / userClient.modify: the request goes on the shared
\* user connection.
UserRequest(p, kind, dn, password) ==
  [task |-> p, kind |-> kind, dn |-> dn, password |-> password]

SendUser(p, e, kind, dn, password, waitpc) ==
  [e EXCEPT
     !.pc = waitpc,
     !.queue = Append(e.queue, UserRequest(p, kind, dn, password))]

\* this.userCache.set(key, {user, password}, {ttl})
CacheSet(e, key, user, password) ==
  [e EXCEPT !.cache = [e.cache EXCEPT ![key] = [user |-> user, password |-> password]]]

\* this.userCache.del(key)
CacheDel(e, key) ==
  [e EXCEPT !.cache = IF key \in Keys THEN [e.cache EXCEPT ![key] = NoRecord] ELSE e.cache,
            !.deleted = e.deleted \cup {key}]

\* this.userCache.get(key)
CacheGet(key) == IF key \in Keys THEN userCache[key] ELSE NoRecord

\* cached && cached.user && cached.user.sAMAccountName
ValidRecord(rec) == rec.user # NoEntry /\ rec.user.sAMAccountName # ""

\* ------------------------------------------------------- admin session
Stages == {"fu", "gr", "dn", "sy", "sg", "mod", "add"}
BindPc(stage) == stage \o "_bind"
ReqPc(stage) == stage \o "_req"
BindPcs == {BindPc(s) : s \in Stages}
ReqPcs == {ReqPc(s) : s \in Stages}
StageOfBind(pcv) == CHOOSE s \in Stages : BindPc(s) = pcv
SearchStages == {"fu", "gr", "dn", "sy", "sg"}

\* The call made on adminClient once adminBind resolved: the search of
\* search() (line 371), or the body of modify (lines 892-957) or add
\* (lines 1250-1255).
AfterAdminBind(p, o, stage, e) ==
  CASE stage \in SearchStages ->
         [e EXCEPT !.pc = ReqPc(stage)]
    [] stage = "mod" ->
         IF o.password # ""
           THEN SendUser(p, e, "bind", DnOf(o.user), o.password, "mod_ubind")
           ELSE [e EXCEPT !.pc = ReqPc(stage), !.sent = o.data]
    [] stage = "add" ->
         IF ~options.newObject
           THEN Fail(p, e, "ADD operation not available")
           ELSE [e EXCEPT !.pc = ReqPc(stage)]

\* Mutant: with no bindDN the bind is sent all the same (anonymously).
adminBind_anonymous(p, o, stage, e) ==
  IF adminBound
    THEN AfterAdminBind(p, o, stage, e)
    ELSE [e EXCEPT !.pc = BindPc(stage)]

\* adminBind followed by onConnectAdmin up to the bind request: already
\* bound, no bind; no bindDN, throw; else adminClient.bind is sent.
adminBind(p, o, stage, e) ==
  IF adminBound
    THEN AfterAdminBind(p, o, stage, e)
    ELSE IF ~options.bindDN
      THEN Fail(p, e, "bindDN is undefined")
      ELSE [e EXCEPT !.pc = BindPc(stage)]

\* Mutant: the handler stays registered (on() in place of once()).
installReconnectListener_on(armed, n) ==
  <<armed, IF armed /\ n < MaxListeners THEN n + 1 ELSE n>>

\* this.emit('installReconnectListener'): the handler was registered with
\* once(), so only the first emit attaches a 'connect' listener.
installReconnectListener(armed, n) ==
  IF armed THEN <<FALSE, n + 1>> ELSE <<armed, n>>

\* Mutant: the callback marks the session bound on an error too.
BindCallbackFlags_alwaysBound(error) ==
  /\ adminBound' = TRUE
  /\ adminEvent' = IF error THEN adminEvent ELSE "none"
  /\ IF ~error /\ Truthy(options.reconnect)
       THEN LET r == installReconnectListener(onceArmed, connectListeners)
            IN onceArmed' = r[1] /\ connectListeners' = r[2]
       ELSE UNCHANGED <<onceArmed, connectListeners>>

\* The body of the adminClient.bind callback (lines 308-330) on the flags.
BindCallbackFlags(error) ==
  /\ adminBound' = ~error
  /\ adminEvent' = IF error THEN adminEvent ELSE "none"
  /\ IF ~error /\ Truthy(options.reconnect)
       THEN LET r == installReconnectListener(onceArmed, connectListeners)
            IN onceArmed' = r[1] /\ connectListeners' = r[2]
       ELSE UNCHANGED <<onceArmed, connectListeners>>

\* Mutant: a bind answered when the session is already bound is rejected.
onConnectAdmin_duplicateRejected(p, error) ==
  /\ Turn
  /\ pc[p] \in BindPcs
  /\ BindCallbackFlags(error)
  /\ Apply(p, IF error \/ adminBound
                THEN Fail(p, Same(p), "admin bind error")
                ELSE AfterAdminBind(p, op[p], StageOfBind(pc[p]), Same(p)))
  /\ UNCHANGED <<callVars, filterVars, options, listenerBinds, userResp, srvUserIdentity, op, cached, sync>>

\* adminClient.bind answered for task p: on error the task's promise
\* rejects, on success the task issues its call.
onConnectAdmin(p, error) ==
  /\ Turn
  /\ pc[p] \in BindPcs
  /\ BindCallbackFlags(error)
  /\ Apply(p, IF error THEN Fail(p, Same(p), "admin bind error")
                       ELSE AfterAdminBind(p, op[p], StageOfBind(pc[p]), Same(p)))
  /\ UNCHANGED <<callVars, filterVars, options, listenerBinds, userResp, srvUserIdentity, op, cached, sync>>

\* 'error' and 'connectTimeout' on adminClient (lines 158, 171): the code
\* only decides what is logged.
ErrorCodes == {"ECONNRESET", "ETIMEDOUT"}
\* Mutant: the reset class, which is not logged, does not unbind either.
ResetsBound_notOnReset(code) == code # "ECONNRESET"

\* this.adminBound = false is outside the test on the code (line 249).
ResetsBound(code) == TRUE

handleErrorAdmin(code) ==
  /\ Turn
  /\ adminBound' = IF ResetsBound(code) THEN FALSE ELSE adminBound
  /\ adminEvent' = code
  /\ UNCHANGED <<callVars, filterVars, options, onceArmed, connectListeners, listenerBinds, userCache,
                 userConnVars, taskVars>>

\* 'connect' on adminClient: every attached listener calls onConnectAdmin({}).
adminConnect ==
  /\ Turn
  /\ connectListeners > 0
  /\ listenerBinds + connectListeners <= MaxListenerBinds
  /\ IF options.bindDN
       THEN listenerBinds' = listenerBinds + connectListeners /\ UNCHANGED adminBound
       ELSE adminBound' = FALSE /\ UNCHANGED listenerBinds
  /\ UNCHANGED <<callVars, filterVars, options, onceArmed, connectListeners, adminEvent, userCache,
                 userConnVars, taskVars>>

\* adminClient.bind answered for a bind the listener started.
onConnectAdminListener(error) ==
  /\ Turn
  /\ listenerBinds > 0
  /\ listenerBinds' = listenerBinds - 1
  /\ BindCallbackFlags(error)
  /\ UNCHANGED <<callVars, filterVars, options, userCache, userConnVars, taskVars>>

\* -------------------------------------------------------------- lookups
Fresh == [pc |-> "idle", result |-> Pending, found |-> NoEntry, bg |-> FALSE,
          live |-> {}, deleted |-> {}, sent |-> <<>>,
          queue |-> userQueue, cache |-> userCache]

\* A public operation starts in an idle task.
\* A new operation takes the first free task.
Free(p) == pc[p] = "idle"

CanStart(p) ==
  /\ Turn
  /\ p \in active
  /\ Free(p)
  /\ \A q \in active : q < p => ~Free(q)
  /\ budget # 0
  /\ budget' = IF budget = Unlimited THEN budget ELSE budget - 1
  /\ UNCHANGED <<active, filterVars>>

Begin(p, o) ==
  /\ CanStart(p)
  /\ op' = [op EXCEPT ![p] = o]
  /\ cached' = [cached EXCEPT ![p] = NoRecord]
  /\ sync' = [sync EXCEPT ![p] = <<>>]
  /\ UNCHANGED <<options, adminVars, userResp, srvUserIdentity>>

\* findUser up to its first await (lines 476-510); its cache read uses the
\* bare username as key.
findUser(p, o, e) ==
  IF CacheOn
    THEN [e EXCEPT
            !.pc = "fu_get",
            !.found = IF ValidRecord(CacheGet(o.user))
                        THEN CacheGet(o.user).user ELSE NoEntry]
    ELSE adminBind(p, o, "fu", e)

\* authenticate's continuation once authenticateInternal resolved with
\* user: foreground lines 1183-1200, background lines 1146-1161.
authenticated(p, o, user, e) ==
  IF e.bg
    THEN [(IF user # cached[p].user /\ CacheOn
             THEN CacheSet(e, userKey(user.sAMAccountName), user, hashSync(o.password))
             ELSE e)
          EXCEPT !.pc = "done"]
    ELSE [(IF CacheOn
             THEN CacheSet(e, userKey(user.sAMAccountName), user, hashSync(o.password))
             ELSE e)
          EXCEPT !.pc = "done", !.result = Ok(user)]

\* What the caller of findUser does with the entry: authenticateInternal
\* binds as the user (lines 1053-1056), searchByUsername caches and returns
\* it (lines 628-650).
foundUserThen(p, o, user, e) ==
  IF o.kind = "authenticate"
    THEN SendUser(p, [e EXCEPT !.found = user], "bind", user.dn, o.password, "auth_ubind")
    ELSE [(IF CacheOn
             THEN CacheSet(CacheSet(e, dnKey(user.dn), user, LDAP_PASSWORD_NULL),
                           userKey(user.sAMAccountName), user, LDAP_PASSWORD_NULL)
             ELSE e)
          EXCEPT !.pc = "done", !.result = Ok(user)]

\* findUser after its cache read: a hit resolves with the cached user, a
\* miss goes to the directory.
findUserGot(p) ==
  /\ Turn
  /\ pc[p] = "fu_get"
  /\ Apply(p, IF foundUser[p] # NoEntry
                THEN foundUserThen(p, op[p], foundUser[p], Same(p))
                ELSE adminBind(p, op[p], "fu", Same(p)))
  /\ UNCHANGED <<callVars, filterVars, options, adminVars, userResp, srvUserIdentity, op, cached, sync>>

\* searchByUsername (lines 602-627).
searchByUsername(p, username, cache) ==
  LET o == [NoOp EXCEPT !.kind = "searchByUsername", !.user = username, !.cache = cache]
  IN /\ Begin(p, o)
     /\ Apply(p, IF cache /\ CacheOn
                   THEN [Fresh EXCEPT
                           !.pc = "su_get",
                           !.found = IF ValidRecord(CacheGet(userKey(username)))
                                       THEN CacheGet(userKey(username)).user ELSE NoEntry]
                   ELSE findUser(p, o, Fresh))

searchByUsernameGot(p) ==
  /\ Turn
  /\ pc[p] = "su_get"
  /\ Apply(p, IF foundUser[p] # NoEntry
                THEN [Same(p) EXCEPT !.pc = "done", !.result = Ok(foundUser[p])]
                ELSE findUser(p, op[p], Same(p)))
  /\ UNCHANGED <<callVars, filterVars, options, adminVars, userResp, srvUserIdentity, op, cached, sync>>

userByDN(o) == IF o.kind = "add" THEN AddDn(o.user) ELSE DnOf(o.user)
toLowerCaseDn(dn) ==
  IF \E u \in Usernames : dn = AddDn(u)
    THEN "cn=" \o (CHOOSE u \in Usernames : dn = AddDn(u)) \o "," \o newObjectBase
    ELSE dn

\* searchByDN up to its first await (lines 679-704).
searchByDNStart(p, o, cache, e) ==
  IF cache /\ CacheOn
    THEN [e EXCEPT
            !.pc = "dn_get",
            !.found = IF ValidRecord(CacheGet(dnKey(userByDN(o))))
                        THEN CacheGet(dnKey(userByDN(o))).user ELSE NoEntry]
    ELSE adminBind(p, o, "dn", e)

searchByDN(p, username, cache) ==
  LET o == [NoOp EXCEPT !.kind = "searchByDN", !.user = username, !.cache = cache]
  IN /\ Begin(p, o)
     /\ Apply(p, searchByDNStart(p, o, cache, Fresh))

searchByDNGot(p) ==
  /\ Turn
  /\ pc[p] = "dn_get"
  /\ Apply(p, IF foundUser[p] # NoEntry
                THEN [Same(p) EXCEPT !.pc = "done", !.result = Ok(foundUser[p])]
                ELSE adminBind(p, op[p], "dn", Same(p)))
  /\ UNCHANGED <<callVars, filterVars, options, adminVars, userResp, srvUserIdentity, op, cached, sync>>

\* searchByDN with the entry of a one-match search (lines 722-742).
searchByDNFound(p, o, user, e) ==
  [(IF CacheOn
      THEN LET e1 == CacheSet(e, dnKey(userByDN(o)), user, LDAP_PASSWORD_NULL)
           IN IF user.sAMAccountName # ""
                THEN CacheSet(e1, userKey(user.sAMAccountName), user, LDAP_PASSWORD_NULL)
                ELSE e1
      ELSE e)
   EXCEPT !.pc = "done", !.result = Ok(user)]

\* --------------------------------------------------------- authenticate
\* Mutant: the password is never found missing.
missingPassword_never(password) == FALSE

\* !password (line 1112)
missingPassword(password) == password = ""

\* authenticate up to its first await (lines 1112-1125, 1176-1181).
authenticate(p, username, password, cache) ==
  LET o == [NoOp EXCEPT !.kind = "authenticate", !.user = username,
                        !.password = password, !.cache = cache]
  IN /\ CanStart(p)
     /\ op' = [op EXCEPT ![p] = o]
     /\ IF missingPassword(password)
          THEN /\ Apply(p, [Fresh EXCEPT !.pc = "done", !.result = Err("No password given")])
               /\ cached' = [cached EXCEPT ![p] = NoRecord]
          ELSE IF cache /\ CacheOn
            THEN /\ Apply(p, [Fresh EXCEPT !.pc = "auth_get"])
                 /\ cached' = [cached EXCEPT ![p] = CacheGet(userKey(username))]
            ELSE /\ Apply(p, findUser(p, o, Fresh))
                 /\ cached' = [cached EXCEPT ![p] = NoRecord]
     /\ sync' = [sync EXCEPT ![p] = <<>>]
     /\ UNCHANGED <<options, adminVars, userResp, srvUserIdentity>>

\* Mutant: any record with a proof is a hit, whatever the password.
cacheHit_anyProof(c, password) == ValidRecord(c) /\ c.password # ""

\* The test of lines 1126-1132 on the record read from the cache.
cacheHit(c, password) ==
  /\ ValidRecord(c)
  /\ c.password # ""
  /\ (c.password = LDAP_PASSWORD_NULL \/ compareSync(password, c.password))

\* authenticate after its cache read: on a hit the cached user is returned
\* and the re-authentication starts in the background (lines 1139-1172); on
\* a miss the live authentication runs in the foreground.
authenticateGot(p) ==
  /\ Turn
  /\ pc[p] = "auth_get"
  /\ IF cacheHit(cached[p], op[p].password)
       THEN Apply(p, findUser(p, op[p], [Same(p) EXCEPT !.bg = TRUE,
                                                         !.result = Ok(cached[p].user)]))
       ELSE Apply(p, findUser(p, op[p], Same(p)))
  /\ UNCHANGED <<callVars, filterVars, options, adminVars, userResp, srvUserIdentity, op, cached, sync>>

\* ------------------------------------------------------ search callbacks
\* What the directory can answer to the search a stage issued.
EntryFor(o, rev) == [Entry(o.user, rev) EXCEPT !.dn = toLowerCaseDn(userByDN(o))]
GroupsFound == "gs"

SearchItems(o, stage) ==
  CASE stage \in {"fu", "dn"} ->
         {<<>>} \cup {<<EntryFor(o, r)>> : r \in Revs}
           \cup {<<EntryFor(o, 1), EntryFor(o, 2)>>}
    [] stage = "gr" -> {GroupsFound}
    [] stage \in {"sy", "sg"} ->
         {<<>>} \cup {<<Entry(u, 1)>> : u \in DirectoryUsers}
           \cup {<<Entry("alice", 1), Entry("bob", 1)>>}

\* Mutant: of several matches the first is taken.
findUserSearched_firstOfSeveral(p, error, items) ==
  /\ Turn
  /\ pc[p] = ReqPc("fu")
  /\ Apply(p, IF error THEN Fail(p, Same(p), "search error")
              ELSE IF Len(items) = 0 THEN Fail(p, Same(p), "NoSuchObjectError")
              ELSE foundUserThen(p, op[p], items[1], Did(Same(p), "search")))
  /\ UNCHANGED <<callVars, filterVars, options, adminVars, userResp, srvUserIdentity, op, cached, sync>>

\* findUser's search answered (lines 511-537).
findUserSearched(p, error, items) ==
  /\ Turn
  /\ pc[p] = ReqPc("fu")
  /\ Apply(p, IF error THEN Fail(p, Same(p), "search error")
              ELSE CASE Len(items) = 0 -> Fail(p, Same(p), "NoSuchObjectError")
                     [] Len(items) = 1 ->
                          foundUserThen(p, op[p], items[1], Did(Same(p), "search"))
                     [] OTHER -> Fail(p, Same(p), "unexpected number of matches"))
  /\ UNCHANGED <<callVars, filterVars, options, adminVars, userResp, srvUserIdentity, op, cached, sync>>

\* searchByDN's search answered (lines 705-761).
searchByDNSearched(p, error, items) ==
  /\ Turn
  /\ pc[p] = ReqPc("dn")
  /\ Apply(p, IF error THEN Fail(p, Same(p), "search error")
              ELSE CASE Len(items) = 0 -> Fail(p, Same(p), "NoSuchObjectError")
                     [] Len(items) = 1 -> searchByDNFound(p, op[p], items[1], Same(p))
                     [] OTHER -> Fail(p, Same(p), "unexpected number of matches"))
  /\ UNCHANGED <<callVars, filterVars, options, adminVars, userResp, srvUserIdentity, op, cached, sync>>

\* findGroups' search answered inside authenticateInternal (lines 577-592,
\* 1070-1086): the groups are set on the user, which authenticate receives.
findGroupsSearched(p, error, groups) ==
  /\ Turn
  /\ pc[p] = ReqPc("gr")
  /\ Apply(p, IF error THEN Fail(p, Same(p), "search error")
              ELSE LET user == [foundUser[p] EXCEPT !.groups = groups]
                   IN authenticated(p, op[p], user,
                                    [Did(Same(p), "groups") EXCEPT !.found = user]))
  /\ UNCHANGED <<callVars, filterVars, options, adminVars, userResp, srvUserIdentity, op, cached, sync>>

\* ------------------------------------------------------- user connection
\* The directory processes the requests of the user connection in order; a
\* bind sets the identity of the connection, a failed bind or an unbind
\* leaves it anonymous.
serveUser(ok) ==
  /\ Turn
  /\ userQueue # <<>>
  /\ LET h == Head(userQueue)
     IN /\ userResp' = [userResp EXCEPT ![h.task] = IF ok THEN "ok" ELSE "err"]
        /\ srvUserIdentity' =
             CASE h.kind = "bind" ->
                    IF ok THEN [dn |-> h.dn, password |-> h.password] ELSE Anonymous
               [] h.kind = "unbind" -> Anonymous
               [] OTHER -> srvUserIdentity
  /\ userQueue' = Tail(userQueue)
  /\ UNCHANGED <<callVars, filterVars, options, adminVars, userCache, taskVars>>

\* Mutant: the bind error is ignored and the groups are fetched all the same.
authenticateInternalBound_ignoresBindError(p) ==
  /\ Turn
  /\ pc[p] = "auth_ubind"
  /\ userResp[p] # "none"
  /\ userResp' = [userResp EXCEPT ![p] = "none"]
  /\ Apply(p, IF options.groupSearch
                THEN adminBind(p, op[p], "gr", Did(Same(p), "bind"))
                ELSE authenticated(p, op[p], foundUser[p], Did(Same(p), "bind")))
  /\ UNCHANGED <<callVars, filterVars, options, adminVars, srvUserIdentity, op, cached, sync>>

\* The userClient.bind callback of authenticateInternal (lines 1057-1088).
authenticateInternalBound(p) ==
  /\ Turn
  /\ pc[p] = "auth_ubind"
  /\ userResp[p] # "none"
  /\ userResp' = [userResp EXCEPT ![p] = "none"]
  /\ Apply(p, IF userResp[p] = "err"
                THEN Fail(p, Same(p), "InvalidCredentialsError")
                ELSE IF options.groupSearch
                  THEN adminBind(p, op[p], "gr", Did(Same(p), "bind"))
                  ELSE authenticated(p, op[p], foundUser[p], Did(Same(p), "bind")))
  /\ UNCHANGED <<callVars, filterVars, options, adminVars, srvUserIdentity, op, cached, sync>>

\* ---------------------------------------------------------------- modify
\* modify (lines 876-892): adminBind first, whatever the arguments.
modify(p, username, named, password, data) ==
  LET o == [NoOp EXCEPT !.kind = "modify", !.user = username, !.named = named,
                        !.password = password, !.data = data]
  IN /\ Begin(p, o)
     /\ Apply(p, adminBind(p, o, "mod", Fresh))

\* The cache deletions of modify (lines 934-950, 986-1002): the keys are the
\* dn and the username as given.
modifyCacheReset(o, e) ==
  IF CacheOn
    THEN LET e1 == CacheDel(e, DnOf(o.user))
         IN IF o.named THEN CacheDel(e1, o.user) ELSE e1
    ELSE e

\* The userClient.bind callback of modify (lines 894-916): the photo
\* payloads are replaced in data before userClient.modify(dn, data) is
\* called.
modifyUserBound(p) ==
  /\ Turn
  /\ pc[p] = "mod_ubind"
  /\ userResp[p] # "none"
  /\ userResp' = [userResp EXCEPT ![p] = "none"]
  /\ Apply(p, IF userResp[p] = "err"
                THEN Fail(p, Same(p), "user bind error")
                ELSE SendUser(p, [Same(p) EXCEPT !.sent = skipPhotos(op[p].data)],
                              "modify", DnOf(op[p].user), op[p].password, "mod_umod"))
  /\ UNCHANGED <<callVars, filterVars, options, adminVars, srvUserIdentity, op, cached, sync>>

\* The userClient.modify callback (lines 916-953): reject(searchError) is
\* not followed by a return, so the cache reset runs on error too; the
\* later resolve(true) does not change the rejected promise.
modifyUserModified(p) ==
  /\ Turn
  /\ pc[p] = "mod_umod"
  /\ userResp[p] # "none"
  /\ userResp' = [userResp EXCEPT ![p] = "none"]
  /\ Apply(p, [modifyCacheReset(op[p], Same(p)) EXCEPT
                 !.pc = "done",
                 !.result = IF userResp[p] = "err" THEN Err("modify error") ELSE OkTrue])
  /\ UNCHANGED <<callVars, filterVars, options, adminVars, srvUserIdentity, op, cached, sync>>

\* The adminClient.modify callback (lines 960-1005).
modifyAdminModified(p, error) ==
  /\ Turn
  /\ pc[p] = ReqPc("mod")
  /\ Apply(p, IF error
                THEN Fail(p, Same(p), "modify error")
                ELSE [modifyCacheReset(op[p], Same(p)) EXCEPT
                        !.pc = "done", !.result = OkTrue])
  /\ UNCHANGED <<callVars, filterVars, options, adminVars, userResp, srvUserIdentity, op, cached, sync>>

\* ------------------------------------------------------------------- add
\* add (lines 1246-1255).
add(p, cn) ==
  LET o == [NoOp EXCEPT !.kind = "add", !.user = cn]
  IN /\ Begin(p, o)
     /\ Apply(p, adminBind(p, o, "add", Fresh))

\* The adminClient.add callback (lines 1255-1261): on success the result is
\* that of searchByDN({userByDN}), whose cache parameter defaults to true.
addAdded(p, error) ==
  /\ Turn
  /\ pc[p] = ReqPc("add")
  /\ Apply(p, IF error
                THEN Fail(p, Same(p), "add error")
                ELSE searchByDNStart(p, op[p], TRUE, Same(p)))
  /\ UNCHANGED <<callVars, filterVars, options, adminVars, userResp, srvUserIdentity, op, cached, sync>>

\* ----------------------------------------------------------------- close
\* close (lines 1272-1276): adminClient.unbind is called whatever the state;
\* adminBound is not touched.
close(p) ==
  LET o == [NoOp EXCEPT !.kind = "close"]
  IN /\ Begin(p, o)
     /\ Apply(p, [Fresh EXCEPT !.pc = "cl_admin"])

\* Mutant: an error of the admin unbind rejects and ends the close.
closeAdminUnbound_rejectsOnError(p, error) ==
  /\ Turn
  /\ pc[p] = "cl_admin"
  /\ Apply(p, IF error THEN Fail(p, Same(p), "unbind error")
                       ELSE SendUser(p, Same(p), "unbind", "", "", "cl_user"))
  /\ UNCHANGED <<callVars, filterVars, options, adminVars, userResp, srvUserIdentity, op, cached, sync>>

\* The adminClient.unbind callback (lines 1276-1282): its argument is not
\* looked at, userClient.unbind is called.
closeAdminUnbound(p, error) ==
  /\ Turn
  /\ pc[p] = "cl_admin"
  /\ Apply(p, SendUser(p, Same(p), "unbind", "", "", "cl_user"))
  /\ UNCHANGED <<callVars, filterVars, options, adminVars, userResp, srvUserIdentity, op, cached, sync>>

\* The userClient.unbind callback (lines 1282-1289): resolve(true).
closeUserUnbound(p) ==
  /\ Turn
  /\ pc[p] = "cl_user"
  /\ userResp[p] # "none"
  /\ userResp' = [userResp EXCEPT ![p] = "none"]
  /\ Apply(p, [Same(p) EXCEPT !.pc = "done", !.result = OkTrue])
  /\ UNCHANGED <<callVars, filterVars, options, adminVars, srvUserIdentity, op, cached, sync>>

\* -------------------------------------------------------- synchronization
\* synchronization (lines 771-787) and synchronizationGroups (822-838).
synchronization(p) ==
  LET o == [NoOp EXCEPT !.kind = "synchronization"]
  IN /\ Begin(p, o)
     /\ Apply(p, adminBind(p, o, "sy", Fresh))

synchronizationGroups(p) ==
  LET o == [NoOp EXCEPT !.kind = "synchronizationGroups"]
  IN /\ Begin(p, o)
     /\ Apply(p, adminBind(p, o, "sg", Fresh))

synchronizationGroupsSearched(p, error, items) ==
  /\ Turn
  /\ pc[p] = ReqPc("sg")
  /\ Apply(p, IF error THEN Fail(p, Same(p), "search error")
                       ELSE [Same(p) EXCEPT !.pc = "done", !.result = OkList(items)])
  /\ UNCHANGED <<callVars, filterVars, options, adminVars, userResp, srvUserIdentity, op, cached, sync>>

\* Promise.allSettled over the getGroups calls (line 790): settled when no
\* group search is still running; the value returned is sync itself.
Settled(sq) == \A i \in 1..Len(sq) : sq[i].st \in {"ok", "failed"}
\* Mutant: only the entries whose groups were resolved are returned.
SyncUsers_resolvedOnly(sq) ==
  LET resolved == SelectSeq(sq, LAMBDA x : x.st = "ok")
  IN [i \in 1..Len(resolved) |-> resolved[i].user]

SyncUsers(sq) == [i \in 1..Len(sq) |-> sq[i].user]

SyncSettle(p, sq) ==
  /\ sync' = [sync EXCEPT ![p] = sq]
  /\ IF Settled(sq)
       THEN /\ pc' = [pc EXCEPT ![p] = "done"]
            /\ result' = [result EXCEPT ![p] = OkList(SyncUsers(sq))]
       ELSE /\ pc' = [pc EXCEPT ![p] = "sy_groups"]
            /\ UNCHANGED result

\* The state of one getGroups call right after it was made: identity when
\* group search is not configured, else findGroups up to its admin request.
GroupCall ==
  IF ~options.groupSearch THEN "ok"
  ELSE IF adminBound THEN "req"
  ELSE IF ~options.bindDN THEN "failed"
  ELSE "bind"

\* The bulk search answered (lines 788-812).
synchronizationSearched(p, error, items) ==
  /\ Turn
  /\ pc[p] = ReqPc("sy")
  /\ IF error
       THEN /\ Apply(p, Fail(p, Same(p), "search error"))
            /\ UNCHANGED sync
       ELSE /\ SyncSettle(p, [i \in 1..Len(items) |-> [user |-> items[i], st |-> GroupCall]])
            /\ UNCHANGED <<foundUser, bg, live, deleted, sent, userQueue, userCache>>
  /\ UNCHANGED <<callVars, filterVars, options, adminVars, userResp, srvUserIdentity, op, cached>>

\* adminClient.bind answered for the group search of entry i.
synchronizationGroupBound(p, i, error) ==
  /\ Turn
  /\ pc[p] = "sy_groups"
  /\ i \in 1..Len(sync[p])
  /\ sync[p][i].st = "bind"
  /\ BindCallbackFlags(error)
  /\ SyncSettle(p, [sync[p] EXCEPT ![i].st = IF error THEN "failed" ELSE "req"])
  /\ UNCHANGED <<callVars, filterVars, options, listenerBinds, userCache, userConnVars, op, bg, cached, foundUser, live, deleted, sent>>

\* The group search of entry i answered: findGroups sets user.groups.
synchronizationGroupSearched(p, i, error) ==
  /\ Turn
  /\ pc[p] = "sy_groups"
  /\ i \in 1..Len(sync[p])
  /\ sync[p][i].st = "req"
  /\ SyncSettle(p, IF error THEN [sync[p] EXCEPT ![i].st = "failed"]
                            ELSE [sync[p] EXCEPT ![i].st = "ok",
                                                 ![i].user.groups = GroupsFound])
  /\ UNCHANGED <<callVars, filterVars, options, adminVars, userCache, userConnVars, op, bg, cached, foundUser, live, deleted, sent>>

\* ------------------------------------------------------------ environment
\* The caller takes its answer and the task is over.
Return(p) ==
  /\ pc[p] = "done"
  /\ pc' = [pc EXCEPT ![p] = "idle"]
  /\ op' = [op EXCEPT ![p] = NoOp]
  /\ bg' = [bg EXCEPT ![p] = FALSE]
  /\ cached' = [cached EXCEPT ![p] = NoRecord]
  /\ foundUser' = [foundUser EXCEPT ![p] = NoEntry]
  /\ result' = [result EXCEPT ![p] = Pending]
  /\ sync' = [sync EXCEPT ![p] = <<>>]
  /\ live' = [live EXCEPT ![p] = {}]
  /\ deleted' = [deleted EXCEPT ![p] = {}]
  /\ sent' = [sent EXCEPT ![p] = <<>>]
  /\ UNCHANGED <<callVars, filterVars, options, adminVars, userCache, userConnVars>>

Next ==
  \/ \E p \in Procs, u \in Usernames, pw \in Passwords \cup {""}, c \in BOOLEAN :
       authenticate(p, u, pw, c)
  \/ \E p \in Procs : authenticateGot(p)
  \/ \E p \in Procs : findUserGot(p)
  \/ \E p \in Procs : \E error \in BOOLEAN, items \in SearchItems(op[p], "fu") :
       findUserSearched(p, error, items)
  \/ \E p \in Procs : authenticateInternalBound(p)
  \/ \E p \in Procs, error \in BOOLEAN : findGroupsSearched(p, error, GroupsFound)
  \/ \E p \in Procs, u \in Usernames, c \in BOOLEAN : searchByUsername(p, u, c)
  \/ \E p \in Procs : searchByUsernameGot(p)
  \/ \E p \in Procs, u \in Usernames, c \in BOOLEAN : searchByDN(p, u, c)
  \/ \E p \in Procs : searchByDNGot(p)
  \/ \E p \in Procs : \E error \in BOOLEAN, items \in SearchItems(op[p], "dn") :
       searchByDNSearched(p, error, items)
  \/ \E p \in Procs, u \in Usernames, named \in BOOLEAN, pw \in Passwords \cup {""} :
       \E data \in ChangeLists : modify(p, u, named, pw, data)
  \/ \E p \in Procs : modifyUserBound(p)
  \/ \E p \in Procs : modifyUserModified(p)
  \/ \E p \in Procs, error \in BOOLEAN : modifyAdminModified(p, error)
  \/ \E p \in Procs, u \in Usernames : add(p, u)
  \/ \E p \in Procs, error \in BOOLEAN : addAdded(p, error)
  \/ \E p \in Procs : synchronization(p)
  \/ \E p \in Procs : \E error \in BOOLEAN, items \in SearchItems(op[p], "sy") :
       synchronizationSearched(p, error, items)
  \/ \E p \in Procs, i \in 1..2, error \in BOOLEAN : synchronizationGroupBound(p, i, error)
  \/ \E p \in Procs, i \in 1..2, error \in BOOLEAN : synchronizationGroupSearched(p, i, error)
  \/ \E p \in Procs : synchronizationGroups(p)
  \/ \E p \in Procs : \E error \in BOOLEAN, items \in SearchItems(op[p], "sg") :
       synchronizationGroupsSearched(p, error, items)
  \/ \E p \in Procs : close(p)
  \/ \E p \in Procs, error \in BOOLEAN : closeAdminUnbound(p, error)
  \/ \E p \in Procs : closeUserUnbound(p)
  \/ \E p \in Procs, error \in BOOLEAN : onConnectAdmin(p, error)
  \/ \E code \in ErrorCodes : handleErrorAdmin(code)
  \/ adminConnect
  \/ \E error \in BOOLEAN : onConnectAdminListener(error)
  \/ \E ok \in BOOLEAN : serveUser(ok)
  \/ \E p \in Procs : Return(p)

\* One caller, one operation at a time, any number of operations.
Spec == Init /\ [][Next]_vars

\* Concurrent callers: operations overlap, MaxStarts of them in a behaviour.
InitConcurrent ==
  /\ options = FullOptions
  /\ adminBound = FALSE
  /\ onceArmed = Truthy(options.reconnect)
  /\ connectListeners = 0
  /\ listenerBinds = 0
  /\ adminEvent = "none"
  /\ userCache = [k \in Keys |-> NoRecord]
  /\ userQueue = <<>>
  /\ userResp = [p \in Procs |-> "none"]
  /\ srvUserIdentity = Anonymous
  /\ pc = [p \in Procs |-> "idle"]
  /\ op = [p \in Procs |-> NoOp]
  /\ bg = [p \in Procs |-> FALSE]
  /\ cached = [p \in Procs |-> NoRecord]
  /\ foundUser = [p \in Procs |-> NoEntry]
  /\ result = [p \in Procs |-> Pending]
  /\ sync = [p \in Procs |-> <<>>]
  /\ live = [p \in Procs |-> {}]
  /\ deleted = [p \in Procs |-> {}]
  /\ sent = [p \in Procs |-> <<>>]
  /\ active = Procs
  /\ budget = MaxStarts
  /\ input = <<>>
  /\ output = <<>>
  /\ call = [fn |-> "none", returned |-> FALSE]

SpecConcurrent == InitConcurrent /\ [][Next]_vars

\* ------------------------------------------------------ filter construction
\* Strings are sequences of characters; "NUL" stands for the character
\* U+0000, "GRAVE" for the grave accent U+0060 and "APOS" for the
\* apostrophe U+0027.
\* Longest username examined.
MaxUsernameLen == 3
Metacharacters == {"*", "(", ")", "\\", "NUL", "/"}
\* The metacharacters, the characters String.prototype.replace reads in a
\* replacement string, and an ordinary letter.
Alphabet == Metacharacters \cup {"$", "&", "GRAVE", "APOS", "u"}
HexDigits == {"0", "1", "2", "3", "4", "5", "6", "7", "8", "9", "a", "b", "c", "d", "e", "f"}
Strings(n) == UNION {[1..k -> Alphabet] : k \in 0..n}

\* options.searchFilter, here "(uid={{username}})": the text before and
\* after the placeholder, and the placeholder as the text the pattern matches.
searchFilter == [before |-> <<"(", "u", "i", "d", "=">>,
                 matched |-> <<"{", "{", "u", "s", "e", "r", "n", "a", "m", "e", "}", "}">>,
                 after |-> <<")">>]

\* str.replace(/c/g, replacement) for one character c and a replacement
\* without "$".
RECURSIVE replaceAll(_, _, _)
replaceAll(str, c, replacement) ==
  IF str = <<>> THEN <<>>
  ELSE (IF Head(str) = c THEN replacement ELSE <<Head(str)>>)
       \o replaceAll(Tail(str), c, replacement)

sanitizeInput(str) ==
  LET s1 == replaceAll(str, "*", <<"\\", "2", "a">>)
      s2 == replaceAll(s1, "(", <<"\\", "2", "8">>)
      s3 == replaceAll(s2, ")", <<"\\", "2", "9">>)
      s4 == replaceAll(s3, "\\", <<"\\", "5", "c">>)
      s5 == replaceAll(s4, "NUL", <<"\\", "0", "0">>)
  IN  replaceAll(s5, "/", <<"\\", "2", "f">>)

\* What a replacement string stands for at one match (GetSubstitution of
\* String.prototype.replace): "$" followed by "$" is "$", by "&" the matched
\* text, by a grave accent the text before the match, by an apostrophe the
\* text after it; any other "$" is itself.
RECURSIVE GetSubstitution(_, _)
GetSubstitution(template, replacement) ==
  IF replacement = <<>> THEN <<>>
  ELSE IF Head(replacement) = "$" /\ Len(replacement) >= 2
            /\ replacement[2] \in {"$", "&", "GRAVE", "APOS"}
       THEN (CASE replacement[2] = "$" -> <<"$">>
               [] replacement[2] = "&" -> template.matched
               [] replacement[2] = "GRAVE" -> template.before
               [] replacement[2] = "APOS" -> template.after)
            \o GetSubstitution(template, Tail(Tail(replacement)))
       ELSE <<Head(replacement)>> \o GetSubstitution(template, Tail(replacement))

\* options.searchFilter.replace(/{{username}}/g, sanitizeInput(username))
buildSearchFilter(username) ==
  searchFilter.before \o GetSubstitution(searchFilter, sanitizeInput(username))
    \o searchFilter.after

\* The metacharacters of a filter that stand for themselves, in order: a
\* backslash and the two hexadecimal digits after it are one escaped
\* character (RFC 4515, section 3).
RECURSIVE Unescaped(_)
Unescaped(filter) ==
  IF filter = <<>> THEN <<>>
  ELSE IF Head(filter) = "\\" /\ Len(filter) >= 3
            /\ filter[2] \in HexDigits /\ filter[3] \in HexDigits
       THEN Unescaped(Tail(Tail(Tail(filter))))
       ELSE (IF Head(filter) \in Metacharacters THEN <<Head(filter)>> ELSE <<>>)
            \o Unescaped(Tail(filter))

\* -------------------------------------------------- attribute normalisers
\* Longest objectGUID value examined, in base64 characters (22 characters
\* hold 16 bytes).
MaxGuidChars == 24
\* Longest whenCreated / whenChanged value examined, in characters.
MaxTimeChars == 19
\* objectGUID values: every length up to MaxGuidChars, three byte patterns.
\* A base64 character is named by the six bits it stands for.
GuidInputs ==
  {[i \in 1..n |-> (7 * i + 13 * k) % 64] : n \in 0..MaxGuidChars, k \in 0..2}

\* Buffer.from(str, 'base64'): four characters give three bytes, a rest of
\* three gives two, a rest of two gives one.
RECURSIVE base64Decode(_)
base64Decode(str) ==
  IF Len(str) < 2 THEN <<>>
  ELSE LET b1 == str[1] * 4 + (str[2] \div 16)
       IN  IF Len(str) = 2 THEN <<b1>>
           ELSE LET b2 == (str[2] % 16) * 16 + (str[3] \div 4)
                IN  IF Len(str) = 3 THEN <<b1, b2>>
                    ELSE <<b1, b2, (str[3] % 4) * 64 + str[4]>>
                         \o base64Decode(SubSeq(str, 5, Len(str)))

HexChars == <<"0", "1", "2", "3", "4", "5", "6", "7", "8", "9", "a", "b", "c", "d", "e", "f">>

\* buffer.toString('hex')
toHex(bytes) ==
  [i \in 1..(2 * Len(bytes)) |->
     IF i % 2 = 1 THEN HexChars[(bytes[(i + 1) \div 2] \div 16) + 1]
     ELSE HexChars[(bytes[i \div 2] % 16) + 1]]

toUpperCaseChar(c) ==
  CASE c = "a" -> "A" [] c = "b" -> "B" [] c = "c" -> "C"
    [] c = "d" -> "D" [] c = "e" -> "E" [] c = "f" -> "F"
    [] OTHER -> c

\* str.toUpperCase()
toUpperCase(str) == [i \in 1..Len(str) |-> toUpperCaseChar(str[i])]

\* hex.replace(/^(..) sixteen times $/, '$4$3$2$1-$6$5-$8$7-$10$9-$16$15$14$13$12$11'):
\* a string the pattern does not match is returned as it is.
replaceGuidGroups(hex) ==
  IF Len(hex) # 32 THEN hex
  ELSE LET g(n) == SubSeq(hex, 2 * n - 1, 2 * n)
       IN  g(4) \o g(3) \o g(2) \o g(1) \o <<"-">> \o g(6) \o g(5) \o <<"-">>
             \o g(8) \o g(7) \o <<"-">> \o g(10) \o g(9) \o <<"-">>
             \o g(16) \o g(15) \o g(14) \o g(13) \o g(12) \o g(11)

GUIDtoString(objectGUID) ==
  IF objectGUID = <<>> THEN <<>>
  ELSE LET str == toUpperCase(replaceGuidGroups(toHex(base64Decode(objectGUID))))
       IN  IF str = <<>> THEN <<>> ELSE str

\* whenCreated / whenChanged values examined: every prefix of a
\* generalized time, of one with a fraction, of a punctuated date and of a
\* string whose digits do not pair up from the start.
TimeStrings ==
  { <<"2", "0", "2", "3", "0", "6", "1", "5", "1", "4", "3", "0", "2", "2", "Z">>,
    <<"2", "0", "2", "3", "0", "6", "1", "5", "1", "4", "3", "0", "2", "2", ".", "0", "Z">>,
    <<"2", "0", "2", "3", "-", "0", "6", "-", "1", "5", " ", "1", "4", ":", "3", "0", ":", "2", "2">>,
    <<"Z", "1", "9", "9", "9", "1", "2", "3", "1", "2", "3", "5", "9", "5", "9", "Z">> }
TimeInputs ==
  UNION {{SubSeq(str, 1, n) : n \in 0..(IF Len(str) < MaxTimeChars THEN Len(str) ELSE MaxTimeChars)} :
          str \in TimeStrings}

Digits == <<"0", "1", "2", "3", "4", "5", "6", "7", "8", "9">>
IsDigit(c) == \E i \in 1..Len(Digits) : Digits[i] = c

\* string.match(/\d\d/g): the digit pairs from left to right, not
\* overlapping; <<>> stands for null (no pair).
RECURSIVE matchDigitPairs(_)
matchDigitPairs(str) ==
  IF Len(str) < 2 THEN <<>>
  ELSE IF IsDigit(str[1]) /\ IsDigit(str[2])
       THEN <<SubSeq(str, 1, 2)>> \o matchDigitPairs(SubSeq(str, 3, Len(str)))
       ELSE matchDigitPairs(Tail(str))

\* Number.parseInt(digits, 10)
RECURSIVE parseInt(_)
parseInt(digits) ==
  IF digits = <<>> THEN 0
  ELSE 10 * parseInt(SubSeq(digits, 1, Len(digits) - 1))
       + ((CHOOSE i \in 1..Len(Digits) : Digits[i] = digits[Len(digits)]) - 1)

Null == [date |-> "null"]
\* new Date(NaN)
InvalidDate == [date |-> "invalid"]
\* new Date(Date.UTC(year, monthIndex, day, hours, minutes, seconds)), for
\* components in their ranges.
DateUTC(year, monthIndex, day, hours, minutes, seconds) ==
  [date |-> "utc", year |-> year, monthIndex |-> monthIndex, day |-> day,
   hours |-> hours, minutes |-> minutes, seconds |-> seconds]

\* b[6] is undefined when there are fewer than seven pairs: parseInt gives
\* NaN, Date.UTC gives NaN and the Date is invalid.
fromLDAPString(string) ==
  LET b == matchDigitPairs(string)
  IN  IF b = <<>> THEN Null
      ELSE IF Len(b) < 7 THEN InvalidDate
      ELSE DateUTC(parseInt(b[1] \o b[2]), parseInt(b[3]) - 1, parseInt(b[4]),
                   parseInt(b[5]), parseInt(b[6]), parseInt(b[7]))

\* Longest user DN examined.
MaxDnLen == 4
\* User DNs: parentheses and an ordinary letter.
DnInputs == UNION {[1..k -> {"(", ")", "u"}] : k \in 0..MaxDnLen}

\* options.groupSearchFilter as a string, here "(member={{dn}})".
groupSearchFilter == [before |-> <<"(", "m", "e", "m", "b", "e", "r", "=">>,
                      matched |-> <<"{", "{", "d", "n", "}", "}">>,
                      after |-> <<")">>]

\* str.replace(/c/, replacement): the first occurrence only.
RECURSIVE replaceFirst(_, _, _)
replaceFirst(str, c, replacement) ==
  IF str = <<>> THEN <<>>
  ELSE IF Head(str) = c THEN replacement \o Tail(str)
  ELSE <<Head(str)>> \o replaceFirst(Tail(str), c, replacement)

\* str.replace(/pattern/g, replacement) for a replacement without "$".
RECURSIVE replacePattern(_, _, _)
replacePattern(str, pattern, replacement) ==
  IF Len(str) < Len(pattern) THEN str
  ELSE IF SubSeq(str, 1, Len(pattern)) = pattern
       THEN replacement \o replacePattern(SubSeq(str, Len(pattern) + 1, Len(str)), pattern, replacement)
       ELSE <<Head(str)>> \o replacePattern(Tail(str), pattern, replacement)

\* The function the constructor puts in options.groupSearchFilter, applied
\* to a user with this DN and account name.
groupSearchFilterOf(dn, sAMAccountName) ==
  LET escaped == replaceFirst(replaceFirst(dn, "(", <<"\\", "(">>), ")", <<"\\", ")">>)
      value == IF dn = <<>> THEN <<"u", "n", "d", "e", "f", "i", "n", "e", "d">> ELSE escaped
  IN  replacePattern(groupSearchFilter.before \o GetSubstitution(groupSearchFilter, value)
                       \o groupSearchFilter.after,
                     searchFilter.matched, sAMAccountName)

\* A pure function about to be applied, and after it returned.
Calling(fn) == [fn |-> fn, returned |-> FALSE]
Returned(fn) == [fn |-> fn, returned |-> TRUE]

serviceVars == <<options, adminVars, userCache, userConnVars, taskVars, callVars>>

\* findUser reaches the filter construction with a non-empty username.
findUserFilter ==
  /\ call = Calling("findUser")
  /\ input # <<>>
  /\ output' = buildSearchFilter(input)
  /\ call' = Returned("findUser")
  /\ UNCHANGED <<input, serviceVars>>

\* search() normalises an objectGUID attribute.
searchGUIDtoString ==
  /\ call = Calling("GUIDtoString")
  /\ output' = GUIDtoString(input)
  /\ call' = Returned("GUIDtoString")
  /\ UNCHANGED <<input, serviceVars>>

\* search() normalises a whenCreated or whenChanged attribute.
searchFromLDAPString ==
  /\ call = Calling("fromLDAPString")
  /\ output' = fromLDAPString(input)
  /\ call' = Returned("fromLDAPString")
  /\ UNCHANGED <<input, serviceVars>>

\* findGroups builds the group filter for a user.
findGroupsFilter ==
  /\ call = Calling("groupSearchFilter")
  /\ output' = groupSearchFilterOf(input, <<"u">>)
  /\ call' = Returned("groupSearchFilter")
  /\ UNCHANGED <<input, serviceVars>>

\* findUser sanitizes the username.
findUserSanitize ==
  /\ call = Calling("sanitizeInput")
  /\ output' = sanitizeInput(input)
  /\ call' = Returned("sanitizeInput")
  /\ UNCHANGED <<input, serviceVars>>

InitFilter ==
  /\ options = FullOptions
  /\ adminBound = FALSE
  /\ onceArmed = Truthy(options.reconnect)
  /\ connectListeners = 0
  /\ listenerBinds = 0
  /\ adminEvent = "none"
  /\ userCache = [k \in Keys |-> NoRecord]
  /\ userQueue = <<>>
  /\ userResp = [p \in Procs |-> "none"]
  /\ srvUserIdentity = Anonymous
  /\ pc = [p \in Procs |-> "idle"]
  /\ op = [p \in Procs |-> NoOp]
  /\ bg = [p \in Procs |-> FALSE]
  /\ cached = [p \in Procs |-> NoRecord]
  /\ foundUser = [p \in Procs |-> NoEntry]
  /\ result = [p \in Procs |-> Pending]
  /\ sync = [p \in Procs |-> <<>>]
  /\ live = [p \in Procs |-> {}]
  /\ deleted = [p \in Procs |-> {}]
  /\ sent = [p \in Procs |-> <<>>]
  /\ active = {}
  /\ budget = 0
  /\ output = <<>>
  /\ \/ call = Calling("sanitizeInput") /\ input \in Strings(MaxUsernameLen)
     \/ call = Calling("findUser") /\ input \in Strings(MaxUsernameLen)
     \/ call = Calling("GUIDtoString") /\ input \in GuidInputs
     \/ call = Calling("fromLDAPString") /\ input \in TimeInputs
     \/ call = Calling("groupSearchFilter") /\ input \in DnInputs

NextFilter ==
  \/ findUserSanitize
  \/ findUserFilter
  \/ searchGUIDtoString
  \/ searchFromLDAPString
  \/ findGroupsFilter

\* The filter construction alone, for every username up to MaxUsernameLen.
SpecFilter == InitFilter /\ [][NextFilter]_vars

\* ================================================================ claims
\* A task starts the operation kind in this step.
Starts(p, kind) == pc[p] = "idle" /\ pc'[p] # "idle" /\ op'[p].kind = kind

\* C1: authenticate with an empty password fails with the missing-password
\* error in the step that calls it: it awaits nothing, so no bind, search
\* or user bind is sent and no cache record is read or written, whatever
\* the admin state and the cache content.
C1_EmptyPasswordFailsFast ==
  [][\A p \in Procs :
       (Starts(p, "authenticate") /\ op'[p].password = "")
         => /\ pc'[p] = "done"
            /\ result'[p] = Err("No password given")
            /\ userCache' = userCache
            /\ userQueue' = userQueue
            /\ adminVars' = adminVars
            /\ cached'[p] = NoRecord
            /\ foundUser'[p] = NoEntry]_vars

C1_Witness ==
  \E p \in Procs :
    /\ pc[p] = "done" /\ op[p].kind = "authenticate" /\ op[p].password = ""
    /\ result[p] = Err("No password given")
    /\ adminBound
    /\ userCache[userKey("alice")] # NoRecord

\* The record is present and its proof is a hash of another password.
HashMismatch(c, password) ==
  /\ ValidRecord(c)
  /\ c.password \notin {"", LDAP_PASSWORD_NULL}
  /\ ~compareSync(password, c.password)

LiveErrors ==
  {"bindDN is undefined", "admin bind error", "search error", "NoSuchObjectError",
   "unexpected number of matches", "InvalidCredentialsError"}

\* C2: an authenticate that read, under user:<username>, a record whose
\* proof is the hash of another password is not served from the cache: no
\* background task is started, and its result is that of the live
\* authentication, an entry only after its own user search and user bind
\* succeeded, else the error of the live step that failed.
C2_MismatchIsMiss ==
  \A p \in Procs :
    (op[p].kind = "authenticate" /\ HashMismatch(cached[p], op[p].password))
      => /\ ~bg[p]
         /\ pc[p] # "done" => result[p] = Pending
         /\ result[p].status = "ok" =>
              /\ {"search", "bind"} \subseteq live[p]
              /\ options.groupSearch => "groups" \in live[p]
              /\ result[p].user = foundUser[p]
         /\ result[p].status = "err" => result[p].error \in LiveErrors

C2_Witness ==
  \E p \in Procs :
    /\ op[p].kind = "authenticate" /\ HashMismatch(cached[p], op[p].password)
    /\ pc[p] = "done" /\ result[p].status = "ok"

\* C3: while and after the background re-authentication runs, the caller
\* holds the cached entry it was given at the hit; no failure of the
\* background task changes it or is delivered.
C3_BackgroundNeverSurfaces ==
  \A p \in Procs : bg[p] => result[p] = Ok(cached[p].user)

\* A background task that ended on a rejected user bind.
C3_Witness ==
  \E p \in Procs :
    bg[p] /\ pc[p] = "done" /\ "search" \in live[p] /\ "bind" \notin live[p]

\* C4 (as stated): once modify has succeeded with a cache configured, no
\* record is left under dn:<dn> nor, when the username was given, under
\* user:<username>.
C4_ModifyInvalidates ==
  \A p \in Procs :
    (op[p].kind = "modify" /\ pc[p] = "done" /\ result[p] = OkTrue /\ CacheOn)
      => /\ userCache[dnKey(DnOf(op[p].user))] = NoRecord
         /\ op[p].named => userCache[userKey(op[p].user)] = NoRecord

\* C5 (as stated): a modify that failed asked the cache for no deletion.
C5_FailedModifyDeletesNothing ==
  \A p \in Procs :
    (op[p].kind = "modify" /\ pc[p] = "done" /\ result[p].status = "err")
      => deleted[p] = {}

\* C6 (as stated): the directory executes a modify sent on the user
\* connection under the identity of that call's own bind, its (dn, password).
C6_ModifyUnderOwnBind ==
  (userQueue # <<>> /\ Head(userQueue).kind = "modify")
    => srvUserIdentity = [dn |-> Head(userQueue).dn, password |-> Head(userQueue).password]

\* Task p issues its search, modify or add on adminClient in this step.
IssuesAdminRequest(p) == pc'[p] \in ReqPcs /\ pc'[p] # pc[p]

\* The group search of entry i of p's synchronization is or is not yet in
\* the state st; the step brings it there.
GroupCallIs(sq, i, st) == i \in 1..Len(sq) /\ sq[i].st = st
GroupCallBecomes(p, i, st) ==
  GroupCallIs(sync'[p], i, st) /\ ~GroupCallIs(sync[p], i, st)

\* C7: since an 'error' or 'connectTimeout' event of any code, and until a
\* bind succeeds, the session is unbound; and no search, modify or add goes
\* out on adminClient unless the session is bound or the step is the
\* successful answer to the bind the operation itself issued.
C7_ErrorUnbindsNextRebinds ==
  /\ [](adminEvent # "none" => ~adminBound)
  /\ [][\A p \in Procs :
          /\ IssuesAdminRequest(p)
               => adminBound \/ (pc[p] \in BindPcs /\ adminBound')
          /\ \A i \in 1..Len(sync'[p]) :
               GroupCallBecomes(p, i, "req")
                 => adminBound \/ (GroupCallIs(sync[p], i, "bind") /\ adminBound')]_vars

\* After a bind had succeeded a reset-class error came, and the next
\* operation waits for the answer to its own bind.
C7_Witness ==
  /\ adminEvent = "ECONNRESET"
  /\ Truthy(options.reconnect) /\ ~onceArmed
  /\ \E p \in Procs : pc[p] \in BindPcs

\* The steps that are an answer to an adminClient.bind, by its outcome.
AdminBindAnswered(error) ==
  \/ \E p \in Procs : onConnectAdmin(p, error)
  \/ \E p \in Procs : \E i \in 1..Len(sync[p]) : synchronizationGroupBound(p, i, error)
  \/ onConnectAdminListener(error)

\* C8: the session starts unbound; it becomes bound only in a step that is
\* the successful answer to an admin bind; the failed answer leaves it
\* unbound and ends the operation with the bind error, no request issued;
\* and while it is bound an operation passing adminBind sends no bind and
\* does not fail on the admin identity or bind.
C8_AdminStateMachine ==
  /\ ~adminBound
  /\ [][/\ (~adminBound /\ adminBound') => AdminBindAnswered(FALSE)
        /\ AdminBindAnswered(TRUE) => ~adminBound'
        /\ \A p \in Procs :
             /\ onConnectAdmin(p, TRUE)
                  => /\ pc'[p] = "done"
                     /\ ~bg[p] => result'[p] = Err("admin bind error")
             /\ \A i \in 1..Len(sync[p]) :
                  synchronizationGroupBound(p, i, TRUE) => GroupCallIs(sync'[p], i, "failed")
             /\ (adminBound /\ pc[p] \notin BindPcs)
                  => /\ pc'[p] \notin BindPcs
                     /\ \A i \in 1..Len(sync'[p]) : ~GroupCallBecomes(p, i, "bind")
                     /\ (pc[p] # "done" /\ pc'[p] = "done")
                          => result'[p] \notin {Err("bindDN is undefined"),
                                                Err("admin bind error")}]_vars

\* A bind had succeeded, and a later operation ended on a failed bind.
C8_Witness ==
  /\ ~adminBound
  /\ Truthy(options.reconnect) /\ ~onceArmed
  /\ \E p \in Procs : pc[p] = "done" /\ result[p] = Err("admin bind error")

\* The operations that need the admin session whatever the cache holds.
NeedsAdmin(o) ==
  \/ o.kind \in {"searchByUsername", "searchByDN", "synchronization",
                 "synchronizationGroups", "add"}
  \/ o.kind = "modify" /\ o.password = ""
  \/ o.kind = "authenticate" /\ o.password # ""

\* C9: with no bindDN the session is never bound, no bind is in flight on
\* adminClient for an operation or for the listener, no request was issued,
\* and every operation that needs the session ended or ends with the error
\* of the missing bindDN.
C9_NoIdentityNoBind ==
  ~options.bindDN
    => /\ ~adminBound
       /\ listenerBinds = 0
       /\ \A p \in Procs :
            /\ pc[p] \notin BindPcs \cup ReqPcs
            /\ \A i \in 1..Len(sync[p]) : sync[p][i].st \notin {"bind", "req"}
            /\ (pc[p] = "done" /\ NeedsAdmin(op[p]))
                 => result[p] = Err("bindDN is undefined")

C9_Witness ==
  /\ ~options.bindDN
  /\ \E p \in Procs :
       pc[p] = "done" /\ op[p].kind = "add" /\ result[p] = Err("bindDN is undefined")

\* C10: adminClient never carries more than one 'connect' listener and
\* never loses one; with options.reconnect set it carries one whenever the
\* session is bound, that is from the first successful bind on; and a
\* 'connect' starts exactly one bind.
C10_OneReconnectListener ==
  /\ connectListeners = 0
  /\ [][/\ connectListeners' <= 1
        /\ connectListeners' >= connectListeners
        /\ (Truthy(options.reconnect) /\ adminBound') => connectListeners' = 1
        /\ listenerBinds' > listenerBinds => listenerBinds' = listenerBinds + 1
        /\ (adminConnect /\ options.bindDN) => listenerBinds' = listenerBinds + 1]_vars

\* After an error the connection came back and the one listener rebinds.
C10_Witness ==
  /\ connectListeners = 1
  /\ listenerBinds = 1
  /\ adminEvent # "none"

\* The state in which task p waits for the directory call that follows the
\* admin bind of its stage.
CallAfterBind(p) ==
  LET stage == StageOfBind(pc[p])
  IN IF stage = "mod" /\ op[p].password # "" THEN "mod_ubind" ELSE ReqPc(stage)

\* C11: with operations running concurrently, every successful answer to
\* the bind an operation issued leaves the session bound and takes that
\* operation to its own directory call, whether or not another operation's
\* bind was answered before; the answer changes no other operation; and an
\* operation ends on the bind error only through the answer to its own bind.
C11_DuplicateBindsHarmless ==
  [][\A p \in Procs :
       /\ (pc[p] \in BindPcs /\ pc'[p] # pc[p])
            => /\ \A q \in Procs \ {p} :
                    pc'[q] = pc[q] /\ result'[q] = result[q] /\ sync'[q] = sync[q]
               /\ adminBound'
                    => \/ pc'[p] = CallAfterBind(p) /\ result'[p] = result[p]
                       \/ /\ op[p].kind = "add" /\ ~options.newObject
                          /\ result'[p] = Err("ADD operation not available")
               /\ ~adminBound'
                    => pc'[p] = "done" /\ (~bg[p] => result'[p] = Err("admin bind error"))
       /\ (pc[p] # "done" /\ pc'[p] = "done" /\ result'[p] = Err("admin bind error"))
            => pc[p] \in BindPcs /\ ~adminBound']_vars

\* Both operations started, each issued a bind; one was answered and that
\* operation made its call, the other's answer is still to come.
C11_Witness ==
  /\ adminBound
  /\ budget = 0
  /\ listenerBinds = 0
  /\ pc[1] \in ReqPcs
  /\ pc[2] \in BindPcs

\* What a single-entry lookup gives its caller for the matches of a search
\* that completed.
LookupOutcome(p, items) ==
  /\ pc'[p] = "done"
  /\ CASE Len(items) = 0 -> result'[p] = Err("NoSuchObjectError")
       [] Len(items) = 1 -> result'[p] = Ok(items[1])
       [] OTHER -> result'[p] = Err("unexpected number of matches")

C13_AddFailsFast ==
  \A p \in Procs :
    (op[p].kind = "add" /\ ~options.newObject)
      => /\ pc[p] \notin BindPcs \cup ReqPcs
         /\ pc[p] = "done" => result[p] = Err("ADD operation not available")

\* C14 (as stated): an add ends with an entry only in the step in which the
\* search on the new DN, issued after the add succeeded, is answered.
C14_AddReturnsDirectoryEntry ==
  [][\A p \in Procs :
       (op[p].kind = "add" /\ pc[p] # "done" /\ pc'[p] = "done"
          /\ result'[p].status = "ok")
         => pc[p] = ReqPc("dn")]_vars

\* The background re-authentication of task p has succeeded.
BackgroundSucceeded(p) ==
  /\ bg[p] /\ pc[p] = "done"
  /\ {"search", "bind"} \subseteq live[p]
  /\ options.groupSearch => "groups" \in live[p]

\* C15 (as stated): once the background re-authentication has succeeded,
\* if the live entry differs from the cached one or the cached proof was
\* the sentinel, the record under user:<account> is the live entry with the
\* hash of the supplied password.
C15_BackgroundRefreshOverwrites ==
  \A p \in Procs :
    (BackgroundSucceeded(p)
       /\ (foundUser[p] # cached[p].user \/ cached[p].password = LDAP_PASSWORD_NULL))
      => userCache[userKey(foundUser[p].sAMAccountName)]
           = [user |-> foundUser[p], password |-> hashSync(op[p].password)]

\* The cache holds, under key, the entry user with the sentinel proof.
HoldsLookup(cache, key, user) ==
  key \in Keys /\ cache[key] = [user |-> user, password |-> LDAP_PASSWORD_NULL]

\* Task p's searchByUsername, or searchByDN (called by the caller, or by add
\* on the DN it created), resolves in this step from its directory search.
LookupResolvesLive(p) ==
  /\ \/ op[p].kind = "searchByUsername" /\ pc[p] = ReqPc("fu")
     \/ op[p].kind \in {"searchByDN", "add"} /\ pc[p] = ReqPc("dn")
  /\ pc'[p] = "done"
  /\ result'[p].status = "ok"

\* C16 (as stated): when a searchByUsername or searchByDN resolves from its
\* directory search with a cache configured, the cache then holds the entry
\* returned, with the sentinel proof, under dn:<the entry's dn> and under
\* user:<the entry's sAMAccountName>.
C16_LookupCachedUnderBothKeys ==
  [][\A p \in Procs :
       (LookupResolvesLive(p) /\ CacheOn)
         => /\ HoldsLookup(userCache', dnKey(result'[p].user.dn), result'[p].user)
            /\ HoldsLookup(userCache', userKey(result'[p].user.sAMAccountName),
                           result'[p].user)]_vars

\* The same directory entry, whatever groups were set on it.
SameEntry(a, b) == [a EXCEPT !.groups = "unset"] = [b EXCEPT !.groups = "unset"]

\* The list holds the entries of the synchronization sq, all and in order.
AllEntriesOf(list, sq) ==
  /\ Len(list) = Len(sq)
  /\ \A i \in 1..Len(sq) : SameEntry(list[i], sq[i].user)

\* C17: when the bulk search of a synchronization succeeds, a group
\* resolution is started for each of its entries; no later step adds,
\* drops or replaces an entry; and the synchronization ends only with
\* every resolution settled, never with an error, returning all the
\* entries of the bulk search whichever resolutions failed.
C17_SynchronizationKeepsAllEntries ==
  [][\A p \in Procs :
       /\ \A items \in SearchItems(op[p], "sy") :
            synchronizationSearched(p, FALSE, items)
              => /\ Len(sync'[p]) = Len(items)
                 /\ \A i \in 1..Len(items) :
                      /\ sync'[p][i].user = items[i]
                      /\ sync'[p][i].st \in {"ok", "req", "bind", "failed"}
                 /\ pc'[p] \in {"sy_groups", "done"}
       /\ pc[p] = "sy_groups"
            => /\ AllEntriesOf([i \in 1..Len(sync[p]) |-> sync[p][i].user], sync'[p])
               /\ pc'[p] \in {"sy_groups", "done"}
       /\ (/\ pc'[p] = "done"
           /\ \/ pc[p] = "sy_groups"
              \/ \E items \in SearchItems(op[p], "sy") :
                   synchronizationSearched(p, FALSE, items))
            => /\ result'[p].status = "ok"
               /\ AllEntriesOf(result'[p].list, sync'[p])
               /\ Settled(sync'[p])]_vars

\* A synchronization of two entries ended with one group resolution
\* failed and one done.
C17_Witness ==
  \E p \in Procs :
    /\ pc[p] = "done" /\ op[p].kind = "synchronization"
    /\ Len(result[p].list) = 2
    /\ \E i, j \in 1..2 : sync[p][i].st = "failed" /\ sync[p][j].st = "ok"

\* C18: a close, started in any state and with other operations in flight,
\* calls adminClient.unbind; whatever the answer to it, close then calls
\* userClient.unbind; whatever the answer to that, close resolves with
\* true; a close never holds or gets an error.
C18_CloseReleasesBothNeverRejects ==
  [][\A p \in Procs :
       /\ Starts(p, "close") => pc'[p] = "cl_admin"
       /\ (pc[p] = "cl_admin" /\ pc'[p] # pc[p])
            => /\ pc'[p] = "cl_user"
               /\ userQueue' = Append(userQueue, UserRequest(p, "unbind", "", ""))
       /\ (pc[p] = "cl_user" /\ pc'[p] # pc[p])
            => pc'[p] = "done" /\ result'[p] = OkTrue
       /\ op'[p].kind = "close" => result'[p].status # "err"]_vars

\* A close resolved while another operation waits for the directory, the
\* session unbound.
C18_Witness ==
  \E p, q \in Procs :
    /\ pc[p] = "done" /\ op[p].kind = "close" /\ result[p] = OkTrue
    /\ pc[q] \in BindPcs \cup ReqPcs
    /\ ~adminBound

\* Where a task waits for the answer to a userCache.get.
CacheGetPcs == {"auth_get", "fu_get", "su_get", "dn_get"}

\* Task p goes to the directory for the search of stage: it sends the
\* admin bind or the search, or fails for want of an admin identity.
GoesToDirectory(p, stage) ==
  \/ pc'[p] \in {BindPc(stage), ReqPc(stage)}
  \/ pc'[p] = "done" /\ result'[p] = Err("bindDN is undefined")

\* Task p starts a lookup that gets past its argument check.
StartsLookup(p) ==
  \/ Starts(p, "searchByUsername")
  \/ Starts(p, "searchByDN")
  \/ Starts(p, "authenticate") /\ op'[p].password # ""

\* C19: with no cache configured nothing is ever read from, written to or
\* deleted from the cache and no operation is served from it, and every
\* searchByUsername, searchByDN and authenticate starts with its directory
\* search; with a cache configured, a lookup whose cache reads find nothing
\* goes on to that same directory search, with no background task.
C19_NoCacheGoesLive ==
  /\ [](~options.cache
          => /\ userCache = [k \in Keys |-> NoRecord]
             /\ \A p \in Procs :
                  /\ pc[p] \notin CacheGetPcs
                  /\ deleted[p] = {}
                  /\ cached[p] = NoRecord
                  /\ ~bg[p])
  /\ [][\A p \in Procs :
          /\ (~options.cache /\ StartsLookup(p))
               => GoesToDirectory(p, IF op'[p].kind = "searchByDN" THEN "dn" ELSE "fu")
          /\ (options.cache /\ pc[p] \in CacheGetPcs /\ pc'[p] # pc[p]
                /\ foundUser[p] = NoEntry /\ cached[p] = NoRecord)
               => /\ ~bg'[p]
                  /\ CASE pc[p] \in {"auth_get", "su_get"} ->
                            pc'[p] = "fu_get" /\ foundUser'[p] = NoEntry
                       [] pc[p] = "fu_get" -> GoesToDirectory(p, "fu")
                       [] pc[p] = "dn_get" -> GoesToDirectory(p, "dn")]_vars

\* With no cache configured an authenticate ended with the entry.
C19_Witness ==
  /\ ~options.cache
  /\ \E p \in Procs :
       pc[p] = "done" /\ op[p].kind = "authenticate" /\ result[p].status = "ok"

\* C20: for every username, the filter built by findUser has no unescaped
\* metacharacter coming from the username: its unescaped metacharacters
\* are the ones of the template, in the template's order.
C20_NoUnescapedMetacharacter ==
  call = Returned("findUser")
    => Unescaped(output) = Unescaped(searchFilter.before) \o Unescaped(searchFilter.after)

\* The dashed form of a 16-byte GUID: upper-case hexadecimal, the first three
\* groups byte-reversed, the last two in byte order.
DashedGuid(bytes) ==
  LET hex == toUpperCase(toHex(bytes))
      g(n) == SubSeq(hex, 2 * n - 1, 2 * n)
  IN  g(4) \o g(3) \o g(2) \o g(1) \o <<"-">> \o g(6) \o g(5) \o <<"-">>
        \o g(8) \o g(7) \o <<"-">> \o g(9) \o g(10) \o <<"-">>
        \o g(11) \o g(12) \o g(13) \o g(14) \o g(15) \o g(16)

\* C21: GUIDtoString returns the empty string for every value that does not
\* decode to 16 bytes, and for 16 bytes the upper-case dashed string with
\* the first three groups byte-reversed.
C21_GuidNormalization ==
  call = Returned("GUIDtoString")
    => LET bytes == base64Decode(input)
       IN  IF Len(bytes) = 16 THEN output = DashedGuid(bytes) ELSE output = <<>>

\* C22: fromLDAPString returns null for every string with fewer than the
\* seven digit pairs of a generalized time, and for a string that has them
\* the UTC instant of year, month, day, hour, minute and second.
C22_TimestampNormalization ==
  call = Returned("fromLDAPString")
    => LET b == matchDigitPairs(input)
       IN  IF Len(b) < 7 THEN output = Null
           ELSE output = DateUTC(parseInt(b[1] \o b[2]), parseInt(b[3]) - 1,
                                 parseInt(b[4]), parseInt(b[5]), parseInt(b[6]),
                                 parseInt(b[7]))

\* The parentheses of a filter that no backslash precedes, in order.
RECURSIVE UnescapedParentheses(_)
UnescapedParentheses(filter) ==
  IF filter = <<>> THEN <<>>
  ELSE IF Head(filter) = "\\" /\ Len(filter) >= 2
       THEN UnescapedParentheses(Tail(Tail(filter)))
       ELSE (IF Head(filter) \in {"(", ")"} THEN <<Head(filter)>> ELSE <<>>)
            \o UnescapedParentheses(Tail(filter))

\* C26: in the group filter built from a string template no unescaped
\* parenthesis of the user DN reaches the filter, however many the DN has:
\* the filter's unescaped parentheses are the template's.
C26_GroupFilterEscapesParentheses ==
  call = Returned("groupSearchFilter")
    => UnescapedParentheses(output)
         = UnescapedParentheses(groupSearchFilter.before)
             \o UnescapedParentheses(groupSearchFilter.after)

\* The task is resolving the groups of the user it authenticates.
GroupPcs == {BindPc("gr"), ReqPc("gr")}

\* The user bind of task p is issued in this step, for the one entry found.
IssuesUserBind(p) ==
  /\ pc[p] = ReqPc("fu")
  /\ \E items \in SearchItems(op[p], "fu") :
       /\ Len(items) = 1
       /\ foundUser'[p] = items[1]
       /\ userQueue' = Append(userQueue, UserRequest(p, "bind", items[1].dn, op[p].password))

\* The record authenticate writes once the search, the bind and the group
\* resolution have succeeded.
WritesVerifiedRecord(p) ==
  /\ {"search", "bind"} \subseteq live'[p]
  /\ options.groupSearch => "groups" \in live'[p]
  /\ pc[p] = "auth_ubind" => userResp[p] = "ok"
  /\ pc'[p] = "done"
  /\ result'[p].status = "ok"
  /\ userCache' = [userCache EXCEPT ![userKey(foundUser'[p].sAMAccountName)] =
                     [user |-> foundUser'[p], password |-> hashSync(op[p].password)]]

\* C23: a live authentication goes search, user bind, group resolution,
\* cache write, and stops at the first failure: the bind is issued only for
\* the single entry found, the groups are resolved only after the bind
\* succeeded, the cache is written only after all of them, with
\* user:<account> and the hash of the supplied password, and a failing
\* authenticate writes nothing.
C23_LiveAuthenticationInOrder ==
  [][\A p \in Procs :
       op'[p].kind = "authenticate" =>
         /\ (pc[p] # "auth_ubind" /\ pc'[p] = "auth_ubind") => IssuesUserBind(p)
         /\ (pc[p] \notin GroupPcs /\ pc'[p] \in GroupPcs)
              => pc[p] = "auth_ubind" /\ userResp[p] = "ok"
         /\ (pc[p] = ReqPc("fu") /\ pc'[p] \notin {ReqPc("fu"), "auth_ubind"})
              => pc'[p] = "done"
         /\ (pc[p] = "auth_ubind" /\ userResp[p] = "err" /\ pc'[p] # "auth_ubind")
              => pc'[p] = "done" /\ (~bg[p] => result'[p].status = "err")
         /\ userCache' # userCache => WritesVerifiedRecord(p)
         /\ result'[p].status = "err" => userCache' = userCache]_vars

\* A foreground authenticate with group search configured has returned the
\* user and the cache holds the user with the hash of the password.
C23_Witness ==
  \E p \in Procs :
    /\ op[p].kind = "authenticate" /\ pc[p] = "done" /\ ~bg[p]
    /\ options.groupSearch /\ live[p] = {"search", "bind", "groups"}
    /\ result[p].status = "ok"
    /\ userCache[userKey(op[p].user)] =
         [user |-> result[p].user, password |-> hashSync(op[p].password)]

\* C24: modify with a password does not go through the admin session: it
\* never waits for an admin bind and never fails for want of an admin
\* identity or because the admin bind was refused.
C24_PasswordModifyBypassesAdmin ==
  \A p \in Procs :
    (op[p].kind = "modify" /\ op[p].password # "")
      => /\ pc[p] # BindPc("mod")
         /\ result[p] \notin {Err("bindDN is undefined"), Err("admin bind error")}

\* C25: with the reconnect option left unset the service behaves as with
\* reconnect on: once an admin bind has succeeded the connection carries
\* the listener that rebinds on a reconnect signal.
C25_UnsetReconnectArmsListener ==
  (options.reconnect = "undefined" /\ adminBound) => connectListeners = 1

\* C27: authenticate returns a user only if the directory accepted the
\* password in a user bind: in this call, or in an earlier one whose hash
\* is the proof of the record the call was served from.
C27_AuthenticatedByBindOnly ==
  \A p \in Procs :
    (op[p].kind = "authenticate" /\ result[p].status = "ok")
      => IF bg[p] THEN compareSync(op[p].password, cached[p].password)
         ELSE "bind" \in live[p]

\* The directory rejects the background re-authentication of task p in this
\* step: the user bind is refused, or the user is no longer found.
BackgroundRejected(p) ==
  /\ op[p].kind = "authenticate"
  /\ bg[p]
  /\ \/ pc[p] = "auth_ubind" /\ userResp[p] = "err" /\ pc'[p] = "done"
     \/ findUserSearched(p, FALSE, <<>>)

\* C28: once the directory has rejected a background re-authentication, the
\* record it was started from no longer authenticates that password: a
\* later authenticate with the same username and password is not a cache
\* hit.
C28_RejectedRecordStopsAuthenticating ==
  [][\A p \in Procs :
       BackgroundRejected(p)
         => ~cacheHit(userCache'[userKey(op[p].user)], op[p].password)]_vars

\* C29: the change list modify sends to the directory is the one the caller
\* supplied, on the admin path and on the user path alike.
C29_ModifySendsSuppliedChanges ==
  \A p \in Procs :
    (op[p].kind = "modify" /\ sent[p] # <<>>) => sent[p] = op[p].data

\* C30: the bound flag is never true while the admin connection is a fresh
\* one that has not been re-bound: when the reconnect signal arrives (the
\* connection is new and the rebind is at most in flight) the flag is not
\* true, so no search, modify or add is issued on the unbound connection.
C30_BoundFlagFollowsConnection ==
  [][adminConnect => ~adminBound']_vars

\* C31: when close resolves the admin state is Unbound, so that the next
\* public operation binds before it issues its search, modify or add.
C31_CloseLeavesUnbound ==
  [][\A p \in Procs : closeUserUnbound(p) => ~adminBound']_vars

\* The character a backslash-hex escape stands for (RFC 4515, section 3).
EscapedChar(hex) ==
  CASE hex = <<"2", "a">> -> "*"
    [] hex = <<"2", "8">> -> "("
    [] hex = <<"2", "9">> -> ")"
    [] hex = <<"5", "c">> -> "\\"
    [] hex = <<"0", "0">> -> "NUL"
    [] hex = <<"2", "f">> -> "/"

\* A string with its backslash-hex escapes decoded.
RECURSIVE Unescape(_)
Unescape(str) ==
  IF str = <<>> THEN <<>>
  ELSE IF Head(str) = "\\" /\ Len(str) >= 3
            /\ str[2] \in HexDigits /\ str[3] \in HexDigits
       THEN <<EscapedChar(SubSeq(str, 2, 3))>> \o Unescape(SubSeq(str, 4, Len(str)))
       ELSE <<Head(str)>> \o Unescape(Tail(str))

\* C32: sanitizeInput escapes each metacharacter exactly once: decoding
\* the escapes of its output gives the input back, for every input.
C32_SanitizeRoundTrip ==
  call = Returned("sanitizeInput") => Unescape(output) = input

====
